---- MODULE Spec2Model ----
(***************************************************************************)
(* A model of bitbucket_tool.py: the paginated, cached code search of      *)
(* BitbucketCodeSearch and the three functions that call it, the           *)
(* repository-name extraction, the match formatter, and the interactive    *)
(* shell with its ConversationHandler, whose model calls may run the       *)
(* search as a tool.                                                       *)
(***************************************************************************)
EXTENDS Integers, Sequences, FiniteSets, TLC

VARIABLES
    \* ---- the disk cache and the clock
    cache,           \* the ./cache directory: key -> row, for the keys stored
    clock,           \* wall-clock time in seconds (time.time())
    \* ---- one synchronous call that runs _get_all_search_results
    pc,              \* position of the call
    caller,          \* the function that was called
    workspace_name,  \* self.workspace_name of the instance that is searching
    search_query,    \* argument search_query
    max_page,        \* argument max_page
    highlight_arg,   \* argument highlight of get_matches
    page,            \* local page
    all_results,     \* local all_results
    repo_name,       \* history: local repo_name of each pass that set it
    returned,        \* what the called function returned
    log,             \* history: one record per page response obtained
    gets,            \* history: number of GETs issued so far
    foreign,         \* history: rows stored by other runs of the tool
    \* ---- one call of _format_content_matches
    fpc,             \* position of the call
    highlight,       \* argument highlight
    content_matches, \* the blocks and lines the loops have taken so far
    formatted_lines, \* local formatted_lines
    formatted,       \* the string returned
    \* ---- main's interactive branch: InteractiveLLMShell, ConversationHandler
    spc,             \* where the shell is
    line,            \* the line being processed
    lastcmd,         \* cmd.Cmd.lastcmd
    conversation_handler,  \* shell.conversation_handler
    tpc,             \* position inside get_response ("none": not in it)
    rounds,          \* model rounds of the running conversation.chain
    last_call,       \* history: the arguments of the last conversation.chain
    model_calls,     \* history: number of conversation.chain calls
    printed          \* what the last command printed

searchVars == <<cache, clock, pc, caller, workspace_name, search_query,
                max_page, highlight_arg, page, all_results, repo_name,
                returned, log, gets, foreign>>

formatVars == <<fpc, highlight, content_matches, formatted_lines, formatted>>

shellVars == <<spc, line, lastcmd, conversation_handler, tpc, rounds,
               last_call, model_calls, printed>>

vars == <<searchVars, formatVars, shellVars>>

----------------------------------------------------------------------------
(* Bounds of the model *)

MaxPageArg == 2      \* max_page is drawn from 0..MaxPageArg
MaxGets == 2         \* GETs issued in one behaviour
MaxTicks == 2        \* clock advances in one behaviour
MaxForeign == 1      \* rows other runs of the tool store in one behaviour
MaxLinkSegs == 5     \* "/"-separated segments of a self link
MaxBlocks == 2       \* match blocks of one content_matches
MaxLines == 2        \* lines of one content_matches
MaxSegments == 3     \* segments of one content_matches
MaxModelCalls == 2   \* conversation.chain calls in one behaviour
MaxRounds == 1       \* tool calls the model requests within one chain

(* Program constants *)

MAX_PAGE == 100
EXPIRATION_TIME == 3600

\* the clock advances by half the expiration time
TickSeconds == EXPIRATION_TIME \div 2

----------------------------------------------------------------------------
(* Data *)

Workspaces == {"wsA", "wsB"}
Queries == {"foo", "bar"}

\* Python's None is the empty sequence, and a value that may be None (an
\* optional argument, a dict key that may be missing, the answer of
\* cache.get) is a sequence of length 0 or 1.
None == <<>>
Some(x) == <<x>>
Missing == "Missing"    \* a JSON key that is not in the object
Null == "null"          \* JSON null, Python's None as a dict value

Entry(t, i) == [type |-> t, id |-> i]

C1e == Entry("code_search_result", 1)
C2e == Entry("code_search_result", 2)
O1e == Entry("other", 1)

\* what a page response may hold under "values" (None: no such key)
ValuesChoices ==
    {None, Some(<<C1e>>), Some(<<O1e, C1e>>), Some(<<C2e, O1e, C2e>>)}

\* what a page response may hold under "next": no key, JSON null, a URL
NextChoices == {Missing, Null, "url"}

\* What self.workspace.get("/search/code", params=params) of an instance
\* for workspace w may return: the JSON object of the body, its "values"
\* drawn from V and its "next" from N, or, when none is TRUE, None (the
\* client returns None for a body without text).  origin is the workspace
\* whose endpoint answered: it stands for the workspace-specific content of
\* the body.
Responses(w, V, N, none) ==
    {Some(r) : r \in [values : V, next : N, origin : {w}]}
        \cup (IF none THEN {None} ELSE {})

----------------------------------------------------------------------------
(* Python strings, as sequences of characters *)

Slash == <<"/">>
Newline == <<"\n">>
Str_repositories == <<"r", "e", "p", "o", "s", "i", "t", "o", "r", "i", "e", "s">>
Str_Line == <<"L", "i", "n", "e", " ">>
Str_ColonSpace == <<":", " ">>
Str_Stars == <<"*", "*">>

DigitChars == <<"0", "1", "2", "3", "4", "5", "6", "7", "8", "9">>

\* str(n) for an int n >= 0
RECURSIVE StrOfInt(_)
StrOfInt(n) ==
    IF n < 10 THEN <<DigitChars[n + 1]>>
    ELSE StrOfInt(n \div 10) \o <<DigitChars[(n % 10) + 1]>>

\* s.find(sep, i): the first index >= i at which sep occurs in s, 0 if none
FindFrom(s, sep, i) ==
    LET at == {j \in i..(Len(s) - Len(sep) + 1) :
                  SubSeq(s, j, j + Len(sep) - 1) = sep}
    IN IF at = {} THEN 0 ELSE CHOOSE j \in at : \A k \in at : j <= k

\* sep in s
Contains(s, sep) == FindFrom(s, sep, 1) # 0

\* s.split(sep), for a non-empty sep: the pieces between the occurrences
\* of sep found from left to right, without overlap
RECURSIVE SplitFrom(_, _, _)
SplitFrom(s, sep, i) ==
    LET j == FindFrom(s, sep, i)
    IN IF j = 0 THEN <<SubSeq(s, i, Len(s))>>
       ELSE <<SubSeq(s, i, j - 1)>> \o SplitFrom(s, sep, j + Len(sep))

Split(s, sep) == SplitFrom(s, sep, 1)

\* sep.join(parts)
RECURSIVE Join(_, _)
Join(parts, sep) ==
    IF parts = <<>> THEN <<>>
    ELSE IF Len(parts) = 1 THEN parts[1]
    ELSE parts[1] \o sep \o Join(Tail(parts), sep)

\* The characters c of Latin-1 with c.isspace(): U+0009 to U+000D, U+001C
\* to U+001F, U+0020, U+0085 and U+00A0.  (Beyond Latin-1 str.isspace also
\* holds of U+1680, U+2000 to U+200A, U+2028, U+2029, U+202F, U+205F and
\* U+3000, which a string of this module cannot hold.)
WhiteSpace ==
    {"\t", "\n", "", "\f", "\r", "", "", "", "", " ",
     "", " "}

\* c.isspace()
IsSpace(c) == c \in WhiteSpace

\* s.strip()
RECURSIVE LStrip(_)
LStrip(s) == IF s # <<>> /\ IsSpace(s[1]) THEN LStrip(Tail(s)) ELSE s
RECURSIVE RStrip(_)
RStrip(s) ==
    IF s # <<>> /\ IsSpace(s[Len(s)]) THEN RStrip(SubSeq(s, 1, Len(s) - 1))
    ELSE s
Strip(s) == RStrip(LStrip(s))

----------------------------------------------------------------------------
(* The repository name of a result, lines 151-155 and 185-189 *)

Marker == Slash \o Str_repositories \o Slash

\* repo_name = ""
\* if "/repositories/" in self_link:
\*     parts = self_link.split("/repositories/")[1].split("/")
\*     if len(parts) >= 2: repo_name = parts[1]
RepoName(self_link) ==
    IF Contains(self_link, Marker)
    THEN LET parts == Split(Split(self_link, Marker)[2], Slash)
         IN IF Len(parts) >= 2 THEN parts[2] ELSE <<>>
    ELSE <<>>

\* f"{repo_name}/{file_path}" if repo_name else file_path
FileName(repo, file_path) ==
    IF repo # <<>> THEN repo \o Slash \o file_path ELSE file_path

----------------------------------------------------------------------------
(* _format_content_matches *)

\* a pass that wraps every segment when highlight is on
RenderSegmentWrapAll(segment, hl) ==
    IF hl THEN Str_Stars \o segment.text \o Str_Stars ELSE segment.text

\* one pass of the loop over segments: text, is_match, the two branches
RenderSegment(segment, hl) ==
    LET text == segment.text
        is_match == IF segment.match = None THEN FALSE ELSE segment.match[1]
    IN IF hl /\ is_match THEN Str_Stars \o text \o Str_Stars ELSE text

\* line_text after the loop over segments
RECURSIVE LineText(_, _)
LineText(segments, hl) ==
    IF segments = <<>> THEN <<>>
    ELSE LineText(SubSeq(segments, 1, Len(segments) - 1), hl)
           \o RenderSegment(segments[Len(segments)], hl)

\* a pass without the test of line_text.strip()
FormatLineNoStrip(li, hl) ==
    IF li.segments # <<>>
    THEN <<Str_Line \o StrOfInt(li.line) \o Str_ColonSpace
             \o LineText(li.segments, hl)>>
    ELSE <<>>

\* what one pass of the loop over lines appends to formatted_lines
FormatLine(li, hl) ==
    IF li.segments # <<>>
    THEN LET line_text == LineText(li.segments, hl)
         IN IF Strip(line_text) # <<>>
            THEN <<Str_Line \o StrOfInt(li.line) \o Str_ColonSpace \o line_text>>
            ELSE <<>>
    ELSE <<>>

\* formatted_lines after the lines of one block
RECURSIVE FormatLines(_, _)
FormatLines(lines, hl) ==
    IF lines = <<>> THEN <<>>
    ELSE FormatLine(lines[1], hl) \o FormatLines(Tail(lines), hl)

\* formatted_lines after every block
RECURSIVE FormattedLines(_, _)
FormattedLines(cm, hl) ==
    IF cm = <<>> THEN <<>>
    ELSE FormatLines(cm[1].lines, hl) \o FormattedLines(Tail(cm), hl)

\* return "\n".join(formatted_lines)
FormatContentMatches(cm, hl) ==
    Join(FormattedLines(cm, hl), Newline)


----------------------------------------------------------------------------
(* The loops of get_file_names_with_matches and get_matches, and what the  *)
(* callers of _get_all_search_results return                               *)

\* file_names after the loop over results
RECURSIVE FileNames(_)
FileNames(results) ==
    IF results = <<>> THEN <<>>
    ELSE LET r == results[1]
             here == IF r.type = "code_search_result" /\ r.file.path # <<>>
                     THEN <<FileName(RepoName(r.file.href), r.file.path)>>
                     ELSE <<>>
         IN here \o FileNames(Tail(results))

\* formatted_results after the loop over results
RECURSIVE FormattedResults(_, _)
FormattedResults(results, hl) ==
    IF results = <<>> THEN <<>>
    ELSE LET r == results[1]
             formatted_match == FormatContentMatches(r.content_matches, hl)
             here == IF r.type = "code_search_result" /\ formatted_match # <<>>
                     THEN <<<<FileName(RepoName(r.file.href), r.file.path),
                              formatted_match>>>>
                     ELSE <<>>
         IN here \o FormattedResults(Tail(results), hl)

\* history: the self link and the repo_name of every pass of the loop over
\* results that reached the extraction (in get_file_names_with_matches the
\* passes with a file path, in get_matches every code_search_result)
RECURSIVE RepoNames(_, _)
RepoNames(c, results) ==
    IF results = <<>>
          \/ c \notin {"get_file_names_with_matches", "get_matches"}
    THEN <<>>
    ELSE LET r == results[1]
             ran == /\ r.type = "code_search_result"
                    /\ (c = "get_matches" \/ r.file.path # <<>>)
             here == IF ran
                     THEN <<[self_link |-> r.file.href,
                             repo_name |-> RepoName(r.file.href)]>>
                     ELSE <<>>
         IN here \o RepoNames(c, Tail(results))

\* json.dumps(results): a JSON text, which json.loads reads back as results
JsonDumps(results) == <<"json.dumps", results>>

\* the value function c returns once _get_all_search_results gave results
ReturnValue(c, results, hl) ==
    CASE c = "_get_all_search_results" -> results
      [] c = "get_raw_matches" -> JsonDumps(results)
      [] c = "get_file_names_with_matches" -> Join(FileNames(results), Newline)
      [] c = "get_matches" -> FormattedResults(results, hl)

\* the segments a self link is made of
SegChoices == {<<"w">>, <<"d">>, Str_repositories}

RECURSIVE SeqsUpTo(_, _)
SeqsUpTo(S, n) ==
    IF n = 0 THEN {<<>>}
    ELSE LET shorter == SeqsUpTo(S, n - 1)
         IN shorter \cup {Append(q, x) : q \in shorter, x \in S}

Seg(t, m) == [text |-> t, match |-> m]

OneLineMatch ==
    <<[lines |-> <<[line |-> 3, segments |-> <<Seg(<<"a">>, None)>>]>>]>>

\* a search result: segs are the "/"-separated segments of
\* file.links.self.href ("" also stands for a missing link)
ResultOf(t, path, segs, cm) ==
    [type |-> t, file |-> [path |-> path, href |-> Join(segs, Slash)],
     content_matches |-> cm]

\* the "values" of the pages whose results the two functions go through
ResultValues ==
    {Some(<<ResultOf(t, path, segs, cm)>>) :
        t \in {"code_search_result", "other"}, path \in {<<>>, <<"f">>},
        segs \in SeqsUpTo(SegChoices, MaxLinkSegs),
        cm \in {<<>>, OneLineMatch}}

\* the one page the search tools of the shell are answered with
ToolValues ==
    {Some(<<ResultOf("code_search_result", <<"f">>,
                     <<<<"w">>, Str_repositories, <<"w">>, <<"d">>>>,
                     OneLineMatch)>>)}

----------------------------------------------------------------------------
(* diskcache.Cache as the code uses it *)

\* f"search_code_page_{page}_{search_query}"
CacheKey(p, q) == <<"search_code_page", p, q>>

\* cache.get(key): the stored value while expire_time > now, else None
CacheGet(c, key, now) ==
    IF key \in DOMAIN c /\ c[key].expire_time > now
    THEN c[key].value
    ELSE None

\* cache.set(key, value, expire=expire)
CacheSet(c, key, value, expire, now) ==
    [k \in DOMAIN c \cup {key} |->
        IF k = key THEN [value |-> value, expire_time |-> now + expire]
        ELSE c[k]]

----------------------------------------------------------------------------
(* _get_all_search_results and its callers *)

\* params = {"search_query": search_query}; if page > 1: params["page"] = page
Params(q, p) ==
    IF p > 1 THEN [search_query |-> q, page |-> Some(p)]
             ELSE [search_query |-> q, page |-> None]

IsCodeSearchResult(e) == e.type = "code_search_result"

\* an extend that keeps only the entries of type "code_search_result"
ExtendFiltered(acc, response) ==
    IF response.values # None
    THEN acc \o SelectSeq(response.values[1], IsCodeSearchResult)
    ELSE acc

\* if "values" in response: all_results.extend(response["values"])
Extend(acc, response) ==
    IF response.values # None THEN acc \o response.values[1] ELSE acc

\* response.get("next") is None
NextIsNone(response) == response.next \in {Missing, Null}

\* a cap test that is off by one
OverCapOffByOne(p, mp) == p >= mp

\* page > max_page, tested after page += 1
OverCap(p, mp) == p > mp

\* The rest of one loop iteration once response is bound (lines 113-124),
\* and on return the rest of the caller.  A response of None raises the
\* TypeError of `"values" in response`.
AfterResponse(response, src) ==
    /\ log' = Append(log, [page |-> page, src |-> src, response |-> response,
                           params |-> Params(search_query, page)])
    /\ IF response = None
       THEN /\ pc' = "raised"
            /\ UNCHANGED <<page, all_results, repo_name, returned>>
       ELSE LET results == Extend(all_results, response[1])
                last == NextIsNone(response[1])
            IN /\ all_results' = results
               /\ page' = IF last THEN page ELSE page + 1
               /\ IF last \/ OverCap(page + 1, max_page)
                  THEN /\ pc' = "returned"
                       /\ repo_name' = RepoNames(caller, results)
                       /\ returned' =
                            ReturnValue(caller, results, highlight_arg)
                  ELSE /\ pc' = "lookup"
                       /\ UNCHANGED <<repo_name, returned>>

\* function c of an instance made for workspace w is entered and reaches
\* the loop of _get_all_search_results
Call(c, w, q, mp, hl) ==
    /\ caller' = c
    /\ workspace_name' = w
    /\ search_query' = q
    /\ max_page' = mp
    /\ highlight_arg' = hl
    /\ page' = 1
    /\ all_results' = <<>>
    /\ repo_name' = <<>>
    /\ returned' = <<>>
    /\ log' = <<>>
    /\ pc' = "lookup"
    /\ UNCHANGED <<cache, clock, gets, foreign>>

\* a call from outside the shell, once the call before it has ended
StartCall(C, W, Q, MP) ==
    /\ pc \notin {"lookup", "fetching"}
    /\ \E c \in C, w \in W, q \in Q, mp \in MP :
         \E hl \in (IF c = "get_matches" THEN BOOLEAN ELSE {FALSE}) :
            Call(c, w, q, mp, hl)
    /\ UNCHANGED <<formatVars, shellVars>>

\* one iteration whose cache.get answers: no network call
PageFromCache ==
    /\ pc = "lookup"
    /\ LET response == CacheGet(cache, CacheKey(page, search_query), clock)
       IN /\ response # None
          /\ AfterResponse(response, "hit")
    /\ UNCHANGED <<cache, clock, caller, workspace_name, search_query,
                   max_page, highlight_arg, gets, foreign, formatVars,
                   shellVars>>

\* cache.get is None: the GET is issued and the call blocks in it
CacheMiss ==
    /\ pc = "lookup"
    /\ gets < MaxGets
    /\ CacheGet(cache, CacheKey(page, search_query), clock) = None
    /\ gets' = gets + 1
    /\ pc' = "fetching"
    /\ UNCHANGED <<cache, clock, caller, workspace_name, search_query,
                   max_page, highlight_arg, page, all_results, repo_name,
                   returned, log, foreign, formatVars, shellVars>>

\* the GET returns: cache.set at the time of the return, then the rest of
\* the iteration
GetAnswers(V, N, none) ==
    /\ pc = "fetching"
    /\ \E response \in Responses(workspace_name, V, N, none) :
         /\ cache' = CacheSet(cache, CacheKey(page, search_query), response,
                              EXPIRATION_TIME, clock)
         /\ AfterResponse(response, "net")
    /\ UNCHANGED <<clock, caller, workspace_name, search_query, max_page,
                   highlight_arg, gets, foreign, formatVars, shellVars>>

\* the GET raises (transport or auth error): nothing is caught, the call ends
GetRaises ==
    /\ pc = "fetching"
    /\ pc' = "raised"
    /\ UNCHANGED <<cache, clock, caller, workspace_name, search_query,
                   max_page, highlight_arg, page, all_results, repo_name,
                   returned, log, gets, foreign, formatVars, shellVars>>

\* time passes
Tick ==
    /\ clock < MaxTicks * TickSeconds
    /\ clock' = clock + TickSeconds
    /\ UNCHANGED <<cache, pc, caller, workspace_name, search_query, max_page,
                   highlight_arg, page, all_results, repo_name, returned, log,
                   gets, foreign, formatVars, shellVars>>

\* another run of the tool in the same working directory reaches its
\* cache.set (lines 105-109) with the response of its own GET
ForeignStore(W, Q, V, N) ==
    /\ foreign < MaxForeign
    /\ foreign' = foreign + 1
    /\ \E w \in W, q \in Q, p \in 1..MaxPageArg :
         \E response \in Responses(w, V, N, FALSE) :
            cache' = CacheSet(cache, CacheKey(p, q), response,
                              EXPIRATION_TIME, clock)
    /\ UNCHANGED <<clock, pc, caller, workspace_name, search_query, max_page,
                   highlight_arg, page, all_results, repo_name, returned, log,
                   gets, formatVars, shellVars>>

SearchInit ==
    /\ cache = <<>>
    /\ clock = 0
    /\ pc = "idle"
    /\ caller = "_get_all_search_results"
    /\ workspace_name = "wsA"
    /\ search_query = "foo"
    /\ max_page = MAX_PAGE
    /\ highlight_arg = FALSE
    /\ page = 1
    /\ all_results = <<>>
    /\ repo_name = <<>>
    /\ returned = <<>>
    /\ log = <<>>
    /\ gets = 0
    /\ foreign = 0

\* Pagination: one workspace and one query, every shape of page response,
\* every max_page.
PagingNext ==
    \/ StartCall({"_get_all_search_results"}, {"wsA"}, {"foo"}, 0..MaxPageArg)
    \/ PageFromCache
    \/ CacheMiss
    \/ GetAnswers(ValuesChoices, NextChoices, TRUE)
    \/ GetRaises
    \/ Tick

\* The cache: instances for two workspaces, two queries, time passing,
\* another run of the tool storing a row.
SearchNext ==
    \/ StartCall({"_get_all_search_results"}, Workspaces, Queries,
                 {1, MaxPageArg})
    \/ PageFromCache
    \/ CacheMiss
    \/ GetAnswers({Some(<<C1e>>)}, {Missing, "url"}, TRUE)
    \/ GetRaises
    \/ Tick
    \/ ForeignStore(Workspaces, Queries, {Some(<<C2e>>)}, {Missing})

\* get_file_names_with_matches and get_matches: one page of one result, of
\* every shape
RepoNext ==
    \/ StartCall({"get_file_names_with_matches", "get_matches"}, {"wsA"},
                 {"foo"}, {1})
    \/ PageFromCache
    \/ CacheMiss
    \/ GetAnswers(ResultValues, {Missing}, FALSE)
    \/ GetRaises

----------------------------------------------------------------------------
(* _format_content_matches, one loop pass at a time *)

\* the segments a line may hold: plain text without a match field, matched
\* text, an unmatched space, an unmatched form feed, a matched segment of
\* empty text
SegmentChoices ==
    {Seg(<<"a">>, None), Seg(<<"b">>, Some(TRUE)),
     Seg(<<" ">>, Some(FALSE)), Seg(<<"\f">>, Some(FALSE)),
     Seg(<<>>, Some(TRUE))}

\* the lines of every block, in block order then line order
RECURSIVE AllLines(_)
AllLines(cm) ==
    IF cm = <<>> THEN <<>> ELSE cm[1].lines \o AllLines(Tail(cm))

RECURSIVE CountSegments(_)
CountSegments(lines) ==
    IF lines = <<>> THEN 0
    ELSE Len(lines[1].segments) + CountSegments(Tail(lines))

\* formatted_lines = []
FormatCall ==
    /\ fpc = "idle"
    /\ highlight' \in BOOLEAN
    /\ content_matches' = <<>>
    /\ formatted_lines' = <<>>
    /\ fpc' = "loop"
    /\ UNCHANGED <<formatted, searchVars, shellVars>>

\* for match in content_matches: lines = match.get("lines", [])
FormatNextBlock ==
    /\ fpc = "loop"
    /\ Len(content_matches) < MaxBlocks
    /\ content_matches' = Append(content_matches, [lines |-> <<>>])
    /\ UNCHANGED <<fpc, highlight, formatted_lines, formatted, searchVars,
                   shellVars>>

\* for line_info in lines: one pass, lines 296-311
FormatNextLine ==
    /\ fpc = "loop"
    /\ content_matches # <<>>
    /\ Len(AllLines(content_matches)) < MaxLines
    /\ LET seen == AllLines(content_matches)
           b == Len(content_matches)
       IN \E segments \in SeqsUpTo(SegmentChoices,
                                    MaxSegments - CountSegments(seen)) :
            LET line_info == [line |-> 9 + Len(seen), segments |-> segments]
            IN /\ content_matches' =
                    [content_matches EXCEPT ![b].lines = Append(@, line_info)]
               /\ formatted_lines' =
                    formatted_lines \o FormatLine(line_info, highlight)
    /\ UNCHANGED <<fpc, highlight, formatted, searchVars, shellVars>>

\* return "\n".join(formatted_lines)
FormatReturn ==
    /\ fpc = "loop"
    /\ formatted' = Join(formatted_lines, Newline)
    /\ fpc' = "returned"
    /\ UNCHANGED <<highlight, content_matches, formatted_lines, searchVars,
                   shellVars>>

FormatInit ==
    /\ fpc = "idle"
    /\ highlight = FALSE
    /\ content_matches = <<>>
    /\ formatted_lines = <<>>
    /\ formatted = <<>>

FormatNext ==
    \/ FormatCall
    \/ FormatNextBlock
    \/ FormatNextLine
    \/ FormatReturn


----------------------------------------------------------------------------
(* ConversationHandler *)

\* main, lines 413-442: what the interactive branch configures.  A text is
\* a sequence of pieces, the empty text the empty sequence.
BitbucketWorkspace == "wsA"
ConfiguredModel == "args.model"
ConfiguredTools == <<"get_raw_matches", "get_file_names_with_matches">>
ConfiguredSystemPrompt ==
    <<"Act as an Senior Software engineer. Use the BitbucketCodeSearch tool to search for code. ",
      "SYNTAX_RULES",
      " Be sure to use the correct syntax for Bitbucket code search.">>
ConfiguredOptions == [temperature |-> "args.temperature", num_ctx |-> "args.n_ctx"]

DefaultSystemPrompt == <<"You are a helpful assistant.">>

\* ConversationHandler.__init__, its arguments None (or empty) or a value:
\* tools or [], system_prompt or "You are a helpful assistant.",
\* options or {}.  responses is len(conversation.responses) of the fresh
\* model.conversation(), id tells the objects apart.
NewHandler(id, model, tools, system_prompt, options) ==
    [id |-> id,
     model |-> model,
     tools |-> IF tools = None THEN <<>> ELSE tools,
     system_prompt |-> IF system_prompt = None THEN DefaultSystemPrompt
                       ELSE system_prompt,
     options |-> IF options = None THEN <<>> ELSE options,
     responses |-> 0]

\* new_conversation
NewConversation(h, id) ==
    NewHandler(id, h.model, h.tools, h.system_prompt, h.options)

\* the keyword arguments get_response gives conversation.chain
ChainArgs(h, prompt) ==
    IF h.responses > 0
    THEN [prompt |-> prompt, system |-> None, tools |-> Some(h.tools),
          options |-> None]
    ELSE [prompt |-> prompt, system |-> Some(h.system_prompt),
          tools |-> Some(h.tools), options |-> Some(h.options)]

\* get_response(prompt) on handler h, up to the call of conversation.chain:
\* the first model round is then in flight
GetResponse(h, prompt) ==
    /\ model_calls < MaxModelCalls
    /\ model_calls' = model_calls + 1
    /\ last_call' = Some(ChainArgs(h, prompt))
    /\ conversation_handler' = h
    /\ tpc' = "model"
    /\ rounds' = 0
    /\ UNCHANGED <<spc, line, lastcmd, printed>>

\* get_usage_info
UsageInfo(h) ==
    IF h.responses > 0
    THEN [what |-> "usage", id |-> h.id, turn |-> h.responses]
    ELSE [what |-> "No usage information available yet.", id |-> h.id,
          turn |-> 0]

----------------------------------------------------------------------------
(* InteractiveLLMShell under cmd.Cmd.cmdloop *)

\* a line as cmd.Cmd.parseline reads it: the command word and the rest
Line(text, cmd, arg) == [text |-> text, cmd |-> cmd, arg |-> arg]

EmptyInput == Line("", "", "")
EndOfFile == Line("EOF", "EOF", "")

InputLines ==
    {Line("what about bar", "what", "about bar"), Line("chat hi", "chat", "hi"),
     Line("chat", "chat", ""), Line("usage", "usage", ""),
     Line("exit", "exit", ""), Line("help", "help", ""), EmptyInput, EndOfFile}

\* the do_ methods onecmd finds: those of the shell and cmd.Cmd's do_help
Recognized == {"chat", "usage", "exit", "help"}

\* a do_exit that is not the only method to stop the loop
StopsUsageToo(cmd) == cmd \in {"exit", "usage"}

\* the value the method returns to cmdloop: only do_exit returns True
Stops(cmd) == cmd = "exit"

\* cmdloop reads a line and hands it to onecmd, which sets lastcmd; an
\* empty line stands for lastcmd (emptyline)
ReadLine ==
    /\ spc = "AwaitingInput"
    /\ \E l \in InputLines :
         /\ line' = IF l = EmptyInput THEN lastcmd ELSE l
         /\ lastcmd' = IF l = EmptyInput THEN lastcmd
                       ELSE IF l = EndOfFile THEN EmptyInput ELSE l
    /\ spc' = "Processing"
    /\ UNCHANGED <<conversation_handler, tpc, rounds, last_call, model_calls,
                   printed, searchVars, formatVars>>

\* the method has returned to cmdloop (or, for main's own do_chat, to main,
\* which enters cmdloop)
AfterCommand ==
    /\ spc' = IF Stops(line.cmd) THEN "Exited" ELSE "AwaitingInput"
    /\ UNCHANGED <<line, lastcmd>>

\* emptyline() with no lastcmd to repeat: nothing runs
EmptyLine ==
    /\ spc = "Processing"
    /\ line = EmptyInput
    /\ UNCHANGED <<conversation_handler, tpc, rounds, last_call, model_calls,
                   printed, searchVars, formatVars>>
    /\ AfterCommand

\* default(line), up to the model call: a line that names no do_ method
\* is a turn
Default ==
    /\ spc = "Processing"
    /\ tpc = "none"
    /\ line # EmptyInput
    /\ line.cmd \notin Recognized
    /\ IF line.text = ""
       THEN /\ printed' = [what |-> "No command entered.",
                           id |-> conversation_handler.id, turn |-> 0]
            /\ UNCHANGED <<conversation_handler, tpc, rounds, last_call,
                           model_calls>>
            /\ AfterCommand
       ELSE GetResponse(conversation_handler, line.text)
    /\ UNCHANGED <<searchVars, formatVars>>

\* do_chat(line), up to the model call: the handler is replaced first
DoChat ==
    /\ spc = "Processing"
    /\ tpc = "none"
    /\ line.cmd = "chat"
    /\ IF line.arg = ""
       THEN /\ printed' = [what |-> "Prompt cannot be empty.",
                           id |-> conversation_handler.id, turn |-> 0]
            /\ UNCHANGED <<conversation_handler, tpc, rounds, last_call,
                           model_calls>>
            /\ AfterCommand
       ELSE GetResponse(NewConversation(conversation_handler,
                                        conversation_handler.id + 1),
                        line.arg)
    /\ UNCHANGED <<searchVars, formatVars>>

\* A model round of the running chain ends with a request for a tool: the
\* response joins conversation.responses and the runtime calls the tool,
\* a method of main's bitbucket_tool, with the arguments the model chose:
\* search_query, and max_page, which is MAX_PAGE when the model names none.
ModelRequestsTool(Q, MP) ==
    /\ tpc = "model"
    /\ rounds < MaxRounds
    /\ \E i \in 1..Len(conversation_handler.tools), q \in Q, mp \in MP :
         Call(conversation_handler.tools[i], BitbucketWorkspace, q, mp, FALSE)
    /\ conversation_handler' =
         [conversation_handler EXCEPT !.responses = @ + 1]
    /\ rounds' = rounds + 1
    /\ tpc' = "tool"
    /\ UNCHANGED <<spc, line, lastcmd, last_call, model_calls, printed,
                   formatVars>>

\* The tool has returned, or has raised: the runtime hands the value, or
\* the text of the error, to the model, and the next round is in flight.
\* The frame of the call is gone: its arguments and locals are as before
\* any call.
ToolReturns ==
    /\ tpc = "tool"
    /\ pc \in {"returned", "raised"}
    /\ tpc' = "model"
    /\ pc' = "idle"
    /\ caller' = "_get_all_search_results"
    /\ search_query' = "foo"
    /\ max_page' = MAX_PAGE
    /\ page' = 1
    /\ all_results' = <<>>
    /\ repo_name' = <<>>
    /\ returned' = <<>>
    /\ log' = <<>>
    /\ UNCHANGED <<cache, clock, workspace_name, highlight_arg, gets, foreign>>
    /\ UNCHANGED <<spc, line, lastcmd, conversation_handler, rounds, last_call,
                   model_calls, printed, formatVars>>

\* A model round ends with text: the response joins conversation.responses,
\* response.text() returns, and default or do_chat prints it and returns.
ModelAnswers ==
    /\ tpc = "model"
    /\ conversation_handler' =
         [conversation_handler EXCEPT !.responses = @ + 1]
    /\ printed' = [what |-> "response", id |-> conversation_handler.id,
                   turn |-> conversation_handler.responses + 1]
    /\ tpc' = "none"
    /\ AfterCommand
    /\ UNCHANGED <<rounds, last_call, model_calls, searchVars, formatVars>>

\* A model round raises: nothing in get_response, default, do_chat, cmdloop
\* or main catches it, and the process ends with the traceback.
ModelRaises ==
    /\ tpc = "model"
    /\ tpc' = "none"
    /\ spc' = "Aborted"
    /\ UNCHANGED <<line, lastcmd, conversation_handler, rounds, last_call,
                   model_calls, printed, searchVars, formatVars>>

\* do_usage(line)
DoUsage ==
    /\ spc = "Processing"
    /\ line.cmd = "usage"
    /\ printed' = UsageInfo(conversation_handler)
    /\ UNCHANGED <<conversation_handler, tpc, rounds, last_call, model_calls,
                   searchVars, formatVars>>
    /\ AfterCommand

\* do_exit(line)
DoExit ==
    /\ spc = "Processing"
    /\ line.cmd = "exit"
    /\ printed' = [what |-> "Exiting the interactive shell.",
                   id |-> conversation_handler.id, turn |-> 0]
    /\ UNCHANGED <<conversation_handler, tpc, rounds, last_call, model_calls,
                   searchVars, formatVars>>
    /\ AfterCommand

\* cmd.Cmd.do_help
DoHelp ==
    /\ spc = "Processing"
    /\ line.cmd = "help"
    /\ printed' = [what |-> "help", id |-> conversation_handler.id, turn |-> 0]
    /\ UNCHANGED <<conversation_handler, tpc, rounds, last_call, model_calls,
                   searchVars, formatVars>>
    /\ AfterCommand

\* main, lines 433-445: the handler is built and shell.do_chat(args.prompt)
\* is about to run, before cmdloop
ShellInit ==
    /\ spc = "Processing"
    /\ line = Line("chat args.prompt", "chat", "args.prompt")
    /\ lastcmd = EmptyInput
    /\ conversation_handler =
         NewHandler(0, ConfiguredModel, ConfiguredTools,
                    ConfiguredSystemPrompt, ConfiguredOptions)
    /\ tpc = "none"
    /\ rounds = 0
    /\ last_call = None
    /\ model_calls = 0
    /\ printed = [what |-> "", id |-> 0, turn |-> 0]

\* the shell, the model rounds of a turn, and the search a tool call runs
ShellNext ==
    \/ ReadLine
    \/ EmptyLine
    \/ Default
    \/ DoChat
    \/ ModelRequestsTool({"foo"}, {1, MAX_PAGE})
    \/ ToolReturns
    \/ ModelAnswers
    \/ ModelRaises
    \/ DoUsage
    \/ DoExit
    \/ DoHelp
    \/ PageFromCache
    \/ CacheMiss
    \/ GetAnswers(ToolValues, {Missing, "url"}, FALSE)
    \/ GetRaises
    \/ Tick

----------------------------------------------------------------------------
(* Specifications *)

Init == SearchInit /\ FormatInit /\ ShellInit

SpecPaging == Init /\ [][PagingNext]_vars

SpecSearch == Init /\ [][SearchNext]_vars

SpecRepo == Init /\ [][RepoNext]_vars

SpecFormat == Init /\ [][FormatNext]_vars

SpecShell == Init /\ [][ShellNext]_vars

----------------------------------------------------------------------------
(* Claims *)

\* C1 (as claimed): one call obtains at most max_page page responses, for
\* every max_page >= 0.
C1_PageCap == Len(log) <= max_page

\* a page response carries a "next" indicator: the key is there and not null
HasNextIndicator(response) == response.next \notin {Missing, Null}

\* C2 (as claimed): pages are obtained in the order 1, 2, 3, ..., page 1
\* without a page parameter and page k > 1 with page = k; a page is looked
\* up or requested only after a page whose response carried "next"; and
\* while "next" is present and k < max_page, page k+1 is always obtained
\* next: no call ends, returning or raising, on a page k < max_page whose
\* response carried "next".
C2_StopOnMissingNext ==
    /\ \A i \in 1..Len(log) :
         /\ log[i].page = i
         /\ log[i].params.search_query = search_query
         /\ log[i].params.page = (IF i = 1 THEN None ELSE Some(i))
    /\ \A i \in 1..(Len(log) - 1) :
         /\ log[i].response # None
         /\ HasNextIndicator(log[i].response[1])
         /\ i < max_page
    /\ pc \in {"lookup", "fetching"} =>
         /\ page = Len(log) + 1
         /\ Len(log) > 0 =>
              /\ log[Len(log)].response # None
              /\ HasNextIndicator(log[Len(log)].response[1])
              /\ Len(log) < max_page
    /\ (pc \in {"returned", "raised"} /\ Len(log) > 0
          /\ log[Len(log)].response # None) =>
         \/ ~HasNextIndicator(log[Len(log)].response[1])
         \/ Len(log) >= max_page
    /\ pc = "returned" =>
         /\ Len(log) > 0
         /\ log[Len(log)].response # None

\* C2 (amended): pages are obtained in the order 1, 2, 3, ..., page 1
\* without a page parameter and page k > 1 with page = k; a page is looked
\* up or requested only after a page whose response carried "next"; while
\* "next" is present and k < max_page the loop goes on to look page k+1 up,
\* and the call ends there only by raising, with page k+1 not obtained; and
\* the call returns only after a response without "next" or once page
\* max_page (or later) has been obtained.
C2_StopOnMissingNextUnlessRaised ==
    /\ \A i \in 1..Len(log) :
         /\ log[i].page = i
         /\ log[i].params.search_query = search_query
         /\ log[i].params.page = (IF i = 1 THEN None ELSE Some(i))
    /\ \A i \in 1..(Len(log) - 1) :
         /\ log[i].response # None
         /\ HasNextIndicator(log[i].response[1])
         /\ i < max_page
    /\ pc \in {"lookup", "fetching"} =>
         /\ page = Len(log) + 1
         /\ Len(log) > 0 =>
              /\ log[Len(log)].response # None
              /\ HasNextIndicator(log[Len(log)].response[1])
              /\ Len(log) < max_page
    /\ (pc \in {"returned", "raised"} /\ Len(log) > 0
          /\ log[Len(log)].response # None
          /\ HasNextIndicator(log[Len(log)].response[1])
          /\ Len(log) < max_page) =>
         /\ pc = "raised"
         /\ page = Len(log) + 1
    /\ pc = "returned" =>
         /\ Len(log) > 0
         /\ log[Len(log)].response # None
         /\ \/ ~HasNextIndicator(log[Len(log)].response[1])
            \/ Len(log) >= max_page

\* C2 witness: page 2 was obtained because page 1 carried "next" and
\* 1 < max_page, and the call returned after page 2, which carried none.
C2_Witness ==
    /\ pc = "returned"
    /\ max_page = 2
    /\ Len(log) = 2
    /\ log[1].response[1].next = "url"
    /\ log[2].response[1].next = Missing

\* the entries of the obtained pages' "values", in page order
RECURSIVE ObtainedValues(_)
ObtainedValues(l) ==
    IF l = <<>> THEN <<>>
    ELSE LET r == l[Len(l)].response
         IN ObtainedValues(SubSeq(l, 1, Len(l) - 1))
              \o (IF r = None THEN <<>>
                  ELSE IF r[1].values = None THEN <<>> ELSE r[1].values[1])

\* C3 (as claimed): the returned sequence holds exactly the entries of
\* type "code_search_result" of the obtained pages, in order.
C3_AccumulatorFilter ==
    pc = "returned" =>
        returned = SelectSeq(ObtainedValues(log), IsCodeSearchResult)

\* C3 (amended): the accumulator, and the sequence returned, hold every
\* entry of the obtained pages' "values", of whatever type, in page order
\* and then in the order within the page, duplicates kept.
C3_AccumulatorAll ==
    /\ all_results = ObtainedValues(log)
    /\ pc = "returned" => returned = ObtainedValues(log)

\* C3 witness: a call returned two pages holding an entry of another type
\* and the same entry twice.
C3_Witness ==
    /\ pc = "returned"
    /\ Len(log) = 2
    /\ returned = <<O1e, C1e, C2e, O1e, C2e>>

\* the cache holds a row for the key that has not expired
UnexpiredEntry(key) ==
    key \in DOMAIN cache /\ clock < cache[key].expire_time

\* C4 (as claimed): a GET is issued for (page, query) exactly when the
\* cache holds no unexpired entry for it at the lookup; the response of the
\* GET is stored under that key to expire 3600 s after it came; a hit
\* yields the stored response, issues no GET and leaves the cache alone.
C4_CacheProtocol ==
    [][ LET key == CacheKey(page, search_query)
        IN /\ (pc = "lookup" /\ pc' = "fetching") =>
                /\ ~UnexpiredEntry(key)
                /\ gets' = gets + 1
                /\ cache' = cache
           /\ (pc = "lookup" /\ Len(log') = Len(log) + 1) =>
                /\ UnexpiredEntry(key)
                /\ log'[Len(log')].response = cache[key].value
                /\ gets' = gets
                /\ cache' = cache
           /\ (pc = "fetching" /\ Len(log') = Len(log) + 1) =>
                /\ gets' = gets
                /\ key \in DOMAIN cache'
                /\ cache'[key] = [value |-> log'[Len(log')].response,
                                  expire_time |-> clock + 3600]
                /\ \A k \in DOMAIN cache : k # key => cache'[k] = cache[k]
           /\ gets' # gets => (pc = "lookup" /\ pc' = "fetching")
      ]_vars

\* C9 (as claimed): every page response an instance uses was fetched from
\* its own workspace's endpoint.
C9_WorkspaceIsolation ==
    \A i \in 1..Len(log) :
        log[i].response # None => log[i].response[1].origin = workspace_name

\* the repository segment of a self link, as the specification finds it:
\* the text after the first occurrence of the marker, split at "/"; the
\* second piece if there are two, else the empty string
ExpectedRepoName(self_link) ==
    LET marker == <<"/">> \o Str_repositories \o <<"/">>
        at == FindFrom(self_link, marker, 1)
    IN IF at = 0 THEN <<>>
       ELSE LET rest == SubSeq(self_link, at + Len(marker), Len(self_link))
                segments == Split(rest, <<"/">>)
            IN IF Len(segments) >= 2 THEN segments[2] ELSE <<>>

\* C5 (as claimed): the name extracted from <prefix>/repositories/<ws>/
\* <repo>/<rest...> is <repo>, whatever the segments are, and it is empty
\* when the marker is missing or fewer than two segments follow it.
C5_RepoName ==
    \A i \in 1..Len(repo_name) :
        repo_name[i].repo_name = ExpectedRepoName(repo_name[i].self_link)

\* the concatenation of the segments' texts
RECURSIVE PlainText(_)
PlainText(segments) ==
    IF segments = <<>> THEN <<>>
    ELSE segments[1].text \o PlainText(Tail(segments))

\* the segments' texts, those of the segments flagged match = true wrapped
\* in "**", concatenated
RECURSIVE WrappedText(_)
WrappedText(segments) ==
    IF segments = <<>> THEN <<>>
    ELSE (IF segments[1].match = Some(TRUE)
          THEN <<"*", "*">> \o segments[1].text \o <<"*", "*">>
          ELSE segments[1].text) \o WrappedText(Tail(segments))

\* empty or white space only
IsBlank(str) == \A i \in 1..Len(str) : str[i] \in WhiteSpace

\* "Line {n}: "
LinePrefix(n) == <<"L", "i", "n", "e", " ">> \o StrOfInt(n) \o <<":", " ">>

HasPrefix(str, prefix) ==
    Len(str) >= Len(prefix) /\ SubSeq(str, 1, Len(prefix)) = prefix

\* the entries are those of the lines in kept, one each and in order;
\* the returned string is their join, empty when there is none
EntriesAreOf(kept) ==
    /\ Len(formatted_lines) = Len(kept)
    /\ \A i \in 1..Len(kept) :
         HasPrefix(formatted_lines[i], LinePrefix(kept[i].line))
    /\ fpc = "returned" =>
         /\ kept = <<>> => formatted = <<>>
         /\ kept # <<>> => Split(formatted, <<"\n">>) = formatted_lines

\* a line is kept, as claimed: it has segments and their concatenated text
\* is not blank
KeptOnSegmentText(li) ==
    li.segments # <<>> /\ ~IsBlank(PlainText(li.segments))

\* C6 (as claimed): for either highlight value, one "Line {n}: ..." entry
\* per line, in block order then line order, but for the lines whose
\* segment list is empty or whose concatenated segment text is blank.
C6_DropsOnSegmentText ==
    EntriesAreOf(SelectSeq(AllLines(content_matches), KeptOnSegmentText))

\* the text of a line as rendered for the current highlight value
RenderedText(segments) ==
    IF highlight THEN WrappedText(segments) ELSE PlainText(segments)

\* a line is kept: it has segments and its rendered text is not blank
KeptOnRenderedText(li) ==
    li.segments # <<>> /\ ~IsBlank(RenderedText(li.segments))

\* C6 (amended): one "Line {n}: ..." entry per line, in block order then
\* line order, but for the lines whose segment list is empty or whose
\* rendered text (wrap markers included when highlight is on) is blank; the
\* number of entries is the number of lines minus the dropped ones, and the
\* result is the empty string when no line is kept.
C6_DropsOnRenderedText ==
    LET lines == AllLines(content_matches)
        dropped == {i \in 1..Len(lines) : ~KeptOnRenderedText(lines[i])}
    IN /\ EntriesAreOf(SelectSeq(lines, KeptOnRenderedText))
       /\ Len(formatted_lines) = Len(lines) - Cardinality(dropped)

\* C6 witness: with highlight on, of two lines the first was dropped and
\* the second, one matched segment of empty text, was kept as "****".
C6_Witness ==
    /\ fpc = "returned"
    /\ highlight
    /\ Len(AllLines(content_matches)) = 2
    /\ formatted = <<"L", "i", "n", "e", " ", "1", "0", ":", " ",
                     "*", "*", "*", "*">>

\* the example of the specification: def **foo**(): at line 3
ExampleMatches ==
    <<[lines |-> <<[line |-> 3,
                    segments |-> <<Seg(<<"d", "e", "f", " ">>, None),
                                   Seg(<<"f", "o", "o">>, Some(TRUE)),
                                   Seg(<<"(", ")", ":">>, None)>>]>>]>>

ExampleFormatted ==
    <<"L", "i", "n", "e", " ", "3", ":", " ", "d", "e", "f", " ",
      "*", "*", "f", "o", "o", "*", "*", "(", ")", ":">>

\* C7: the text of every entry is, with highlight on, the concatenation of
\* the segments' texts with exactly those flagged match = true wrapped in
\* "**" (a segment without the field is not wrapped), and with highlight
\* off the plain concatenation of the segments' texts.
C7_HighlightWrapping ==
    LET kept == SelectSeq(AllLines(content_matches), KeptOnRenderedText)
    IN /\ Len(formatted_lines) = Len(kept)
       /\ \A i \in 1..Len(kept) :
            LET entry == formatted_lines[i]
                n == Len(LinePrefix(kept[i].line))
                text == SubSeq(entry, n + 1, Len(entry))
            IN /\ highlight => text = WrappedText(kept[i].segments)
               /\ ~highlight => text = PlainText(kept[i].segments)
       /\ FormatContentMatches(ExampleMatches, TRUE) = ExampleFormatted

\* C7 witness: with highlight on, a line of an unflagged and a matched
\* segment came out with the matched one wrapped.
C7_Witness ==
    /\ fpc = "returned"
    /\ highlight
    /\ formatted_lines = << <<"L", "i", "n", "e", " ", "9", ":", " ",
                             "a", "*", "*", "b", "*", "*">> >>


\* the moves of the shell the claim names: a line read takes AwaitingInput
\* to Processing; Processing ends in AwaitingInput for every line but
\* exit, and in the terminal state for exit alone, which nothing leaves
NamedMove ==
    \/ spc = "AwaitingInput" /\ spc' = "Processing"
    \/ spc = "Processing" /\ spc' = "AwaitingInput" /\ line.cmd # "exit"
    \/ spc = "Processing" /\ spc' = "Exited" /\ line.cmd = "exit"

\* the move the claim leaves out: the model call of a turn raises and the
\* process ends
AbortMove ==
    /\ spc = "Processing" /\ spc' = "Aborted"
    /\ tpc = "model"
    /\ line.cmd \notin {"usage", "exit", "help"}

\* what the commands do to the conversation: a line that is no command is
\* a turn of the current conversation, chat <text> is the first turn of a
\* fresh one, usage reports on the current one, and a turn ends with the
\* model's answer
Turns ==
    /\ (tpc = "none" /\ tpc' = "model") =>
         /\ spc = "Processing" /\ spc' = "Processing"
         /\ model_calls' = model_calls + 1
         /\ \/ /\ line.cmd = "chat" /\ line.arg # ""
               /\ conversation_handler'.id # conversation_handler.id
               /\ conversation_handler'.responses = 0
               /\ last_call'[1].prompt = line.arg
               /\ last_call'[1].system = Some(ConfiguredSystemPrompt)
            \/ /\ line.cmd \notin {"chat", "usage", "exit", "help"}
               /\ conversation_handler' = conversation_handler
               /\ last_call'[1].prompt = line.text
    /\ conversation_handler'.id # conversation_handler.id =>
         (tpc = "none" /\ tpc' = "model")
    /\ model_calls' # model_calls => (tpc = "none" /\ tpc' = "model")
    /\ (spc = "Processing" /\ line.cmd = "usage") =>
         /\ conversation_handler' = conversation_handler
         /\ spc' # spc =>
              /\ printed'.id = conversation_handler.id
              /\ printed'.turn = conversation_handler.responses
    /\ (spc = "Processing" /\ spc' = "AwaitingInput"
          /\ line # EmptyInput
          /\ (line.cmd \notin {"chat", "usage", "exit", "help"}
                \/ (line.cmd = "chat" /\ line.arg # ""))) =>
         /\ tpc = "model" /\ tpc' = "none"
         /\ conversation_handler'.id = conversation_handler.id
         /\ conversation_handler'.responses =
              conversation_handler.responses + 1

\* C8 (as claimed): the shell is in AwaitingInput or Processing until it
\* has exited, it moves as named above and in no other way, so that it ends
\* through exit alone.
C8_ShellStateMachine ==
    /\ [](spc \in {"AwaitingInput", "Processing", "Exited"})
    /\ [][(spc' # spc => NamedMove) /\ Turns]_vars

\* C8 (amended): the shell is in AwaitingInput or Processing until it has
\* exited or the process has been ended by an exception; it moves as named
\* above, or from Processing to the aborted end when the model call of a
\* turn raises, and in no other way; nothing leaves either end.
C8_ShellStateMachineOrAbort ==
    /\ [](spc \in {"AwaitingInput", "Processing", "Exited", "Aborted"})
    /\ [][(spc' # spc => (NamedMove \/ AbortMove)) /\ Turns]_vars

\* C8 witness: the shell has exited after main's chat replaced the
\* conversation and a line that is no command became a further turn of it.
C8_Witness ==
    /\ spc = "Exited"
    /\ conversation_handler.id = 1
    /\ model_calls = 2
    /\ conversation_handler.responses >= 2
    /\ last_call[1].prompt = "what about bar"

\* C10 (as claimed): every model call carries the configured tools and the
\* configured options, the first turn of a conversation the system prompt,
\* and every handler the configured model, tools, prompt and options.
C10_PerTurnConfig ==
    /\ conversation_handler.model = ConfiguredModel
    /\ conversation_handler.tools = ConfiguredTools
    /\ conversation_handler.system_prompt = ConfiguredSystemPrompt
    /\ conversation_handler.options = ConfiguredOptions
    /\ last_call # None =>
         /\ last_call[1].tools = Some(ConfiguredTools)
         /\ last_call[1].options = Some(ConfiguredOptions)
         /\ (tpc = "model" /\ rounds = 0
               /\ conversation_handler.responses = 0) =>
              last_call[1].system = Some(ConfiguredSystemPrompt)

====
